---- MODULE Spec2Model ----
(***************************************************************************)
(* Model of the NeoChat service worker (src/service-worker.js): the cache  *)
(* lifecycle (install / activate), the network-first fetch interceptor and *)
(* the cache storage it shares with the previous worker version.           *)
(*                                                                         *)
(* Two versions of the script are in play: the worker under study ("new",  *)
(* bucket CACHE_NAME) and the version it replaces ("old", bucket           *)
(* OLD_CACHE_NAME), which runs the same fetch handler against its own      *)
(* bucket name.                                                            *)
(*                                                                         *)
(* Spec      : the lifecycle and the fetch events.                         *)
(* EventSpec : the lifecycle and the message, push and notificationclick   *)
(*             events, with fairness of the activation steps.              *)
(* RaceSpec  : the cache writes of the fetch handler in the active worker. *)
(***************************************************************************)
EXTENDS Naturals, Sequences, FiniteSets, Bags, TLC

\* ------------------------------------------------------------------------
\* Bounds of the model
\* ------------------------------------------------------------------------

\* number of fetch events that can be in flight at the same time
MaxFetch == 2

\* ------------------------------------------------------------------------
\* Program constants
\* ------------------------------------------------------------------------

CACHE_NAME == "neochat-v10-cache"

\* the bucket of the previous version of the script (same naming scheme)
OLD_CACHE_NAME == "neochat-v9-cache"

FILES_TO_CACHE == <<"/", "/index.html", "/service-worker.js">>

BucketNames == {CACHE_NAME, OLD_CACHE_NAME}

Workers == {"old", "new"}

\* the CACHE_NAME constant as seen by each version of the script
CacheNameOf(w) == IF w = "new" THEN CACHE_NAME ELSE OLD_CACHE_NAME

SeedPaths == {FILES_TO_CACHE[i] : i \in 1..Len(FILES_TO_CACHE)}

Methods == {"GET", "POST"}

\* URLs the pages request through the worker
URLs == {"/"}

Requests == [method : Methods, url : URLs]

\* request identities a bucket can hold
Keys == [method : Methods, url : SeedPaths \cup URLs]

GetRequest(path) == [method |-> "GET", url |-> path]

\* response bodies the network can produce
Bodies == {"hello", "world"}

\* ------------------------------------------------------------------------
\* Responses
\* ------------------------------------------------------------------------

\* "no response": an absent cache entry, an unset field
NoResponse == [status |-> 0, statusText |-> "", contentType |-> "", body |-> ""]

StatusTextOf(s) ==
    CASE s = 200 -> "OK"
      [] s = 204 -> "No Content"
      [] s = 404 -> "Not Found"
      [] OTHER   -> ""

\* a response as the network (the static server or any other origin) gives it
NetworkResponse(s, b) ==
    [status |-> s, statusText |-> StatusTextOf(s), contentType |-> "text/html", body |-> b]

Statuses == {200, 204, 404}

NetworkResponses ==
    {NetworkResponse(200, b) : b \in Bodies}
        \cup {NetworkResponse(204, "hello"), NetworkResponse(404, "hello")}

\* new Response('Offline - No cached response', {status: 503, ...})
OfflineResponse ==
    [status |-> 503, statusText |-> "Service Unavailable",
     contentType |-> "text/plain", body |-> "Offline - No cached response"]

\* Response.ok
IsOk(r) == r.status >= 200 /\ r.status <= 299

\* (variant) the response is stored after its body was read by the page
CloneConsumed(r) == [status |-> r.status, statusText |-> r.statusText,
                     contentType |-> r.contentType, body |-> ""]

\* response.clone(): an independent copy with the same status, headers and body
Clone(r) == [status |-> r.status, statusText |-> r.statusText,
             contentType |-> r.contentType, body |-> r.body]

\* ------------------------------------------------------------------------
\* State
\* ------------------------------------------------------------------------

VARIABLES
    state,        \* lifecycle state of the new worker
    oldState,     \* lifecycle state of the previous version: "none", "activated", "redundant"
    skipWaiting,  \* the new worker's skip-waiting flag
    cacheNames,   \* CacheStorage: names of the existing buckets, in creation order
    store,        \* CacheStorage: bucket name -> request identity -> stored response
    install,      \* progress of the install event's extended-lifetime promise
    activate,     \* progress of the activate event
    fetches,      \* the fetch events in flight: a bag of event records
    arrived,      \* history: worker -> URL -> the latest status-200 network response
                  \*   to arrive while a cache write for that GET is pending
    message,      \* the last message event handled, and whether it called skipWaiting
    push,         \* progress of the push event
    shown,        \* the notification on display (one tag, so at most one)
    click,        \* progress and outcome of the notificationclick event
    windows       \* URLs of the window clients clients.matchAll reports

\* the state the push, notificationclick and message handlers work on
eventVars == <<message, push, shown, click, windows>>

vars == <<state, oldState, skipWaiting, cacheNames, store, install, activate, fetches,
          arrived, eventVars>>

EmptyBucket == [k \in Keys |-> NoResponse]

SeededBucket == [k \in Keys |->
    IF k.method = "GET" /\ k.url \in SeedPaths THEN NetworkResponse(200, "hello") ELSE NoResponse]

HasBucket(names, n) == \E i \in 1..Len(names) : names[i] = n

\* the record of a fetch event at dispatch
\*   pc     : "net", "matching", "responded", "rejected" (respondWith's promise),
\*            or "passthrough" (respondWith never called)
\*   net    : the network response, once there is one
\*   result : what respondWith's promise resolved to
\*   src    : where result came from: "network", "cache" or "fallback"
\*   write  : the caches.open / cache.put chain: "none", "opening", "putting",
\*            "putting_orphan" (the bucket of the opened cache was deleted)
NewFetch(w, req, at) ==
    [worker |-> w, req |-> req, pc |-> at, net |-> NoResponse,
     result |-> NoResponse, src |-> "none", write |-> "none"]

InFlight == BagToSet(fetches)

\* the bag with one copy of ft replaced by nt, and with one copy of ft removed
Replace(bag, ft, nt) == (bag (-) SetToBag({ft})) (+) SetToBag({nt})
Remove(bag, ft) == bag (-) SetToBag({ft})

NoArrival == [w \in Workers |-> [u \in URLs |-> NoResponse]]

\* data of a message event or of a push event: absent (null), or present
NoData == [present |-> FALSE, type |-> "", text |-> ""]

\* no message event handled yet
NoMessage == [seen |-> FALSE, data |-> NoData, called |-> FALSE]

\* no notification on display / no options built
NoOptions == [body |-> "", icon |-> "", badge |-> "", tag |-> "", requireInteraction |-> FALSE]
NoNotification == [title |-> "", options |-> NoOptions]

\* no push event being handled
NoPush == [pc |-> "idle", data |-> NoData, options |-> NoOptions]

\* no notificationclick event handled yet
\*   pc      : "idle", or "matching" (clients.matchAll pending)
\*   outcome : "none", "focused" or "opened"
\*   target  : the URL of the client focused or of the window opened
NoClick == [pc |-> "idle", outcome |-> "none", target |-> ""]

Init ==
    /\ state = "parsed"
    /\ skipWaiting = FALSE
    /\ oldState \in {"none", "activated"}
    /\ cacheNames = IF oldState = "activated" THEN <<OLD_CACHE_NAME>> ELSE <<>>
    /\ store = [n \in BucketNames |->
                 IF n = OLD_CACHE_NAME /\ oldState = "activated"
                 THEN SeededBucket ELSE EmptyBucket]
    /\ install = [pc |-> "idle", failed |-> FALSE]
    /\ activate = [pc |-> "idle", deleting |-> {}, claim |-> "none"]
    /\ fetches = EmptyBag
    /\ arrived = NoArrival
    /\ message = NoMessage
    /\ push = NoPush
    /\ shown = NoNotification
    /\ click = NoClick
    /\ windows = {}

\* ------------------------------------------------------------------------
\* CacheStorage and Cache operations (host runtime, as used by the script)
\* ------------------------------------------------------------------------

\* caches.open(name): creates the bucket when absent; names keep creation order
OpenNames(names, n) == IF HasBucket(names, n) THEN names ELSE Append(names, n)

\* caches.delete(name)
DeleteNames(names, n) == SelectSeq(names, LAMBDA x : x # n)

\* (variant) an existing entry is kept
PutEntryKeep(st, n, req, resp) ==
    IF st[n][req] # NoResponse THEN st ELSE [st EXCEPT ![n][req] = resp]

\* cache.put(request, response) on the bucket named n
PutEntry(st, n, req, resp) == [st EXCEPT ![n][req] = resp]

\* cache.put rejects with a TypeError a request whose method is not GET
CanPut(req) == req.method = "GET"

\* caches.match(request): the first bucket, in creation order, that holds the
\* request identity answers; NoResponse (undefined) when none does
RECURSIVE MatchFrom(_, _, _, _)
MatchFrom(names, st, req, i) ==
    IF i > Len(names) THEN NoResponse
    ELSE IF st[names[i]][req] # NoResponse THEN st[names[i]][req]
    ELSE MatchFrom(names, st, req, i + 1)

CachesMatch(names, st, req) == MatchFrom(names, st, req, 1)

\* ------------------------------------------------------------------------
\* install event (service-worker.js 12-23)
\* ------------------------------------------------------------------------

\* what the fetch of one seed path can give: a network response, or a
\* network error (NoResponse)
SeedOutcomes ==
    {NetworkResponse(s, "hello") : s \in Statuses} \cup {NoResponse}

\* the seed paths for which cache.addAll fails: the fetch failed, or the
\* response is not ok
FailedSeeds(outcome) == {p \in SeedPaths : ~IsOk(outcome[p])}

\* (variant) one cache.add per path: the paths that succeed are stored
AddAllPartial(st, n, outcome) ==
    [st EXCEPT ![n] = [k \in Keys |->
        IF k.method = "GET" /\ k.url \in SeedPaths /\ IsOk(outcome[k.url])
        THEN outcome[k.url] ELSE st[n][k]]]

\* cache.addAll(FILES_TO_CACHE): every response is stored, or none is
AddAll(st, n, outcome) ==
    IF FailedSeeds(outcome) = {}
    THEN [st EXCEPT ![n] = [k \in Keys |->
            IF k.method = "GET" /\ k.url \in SeedPaths THEN outcome[k.url] ELSE st[n][k]]]
    ELSE st

\* (variant) no .catch on cache.addAll
InstallSettlesNoCatch(addAllRejected) ==
    IF addAllRejected THEN "rejected" ELSE "fulfilled"

\* settlement of the promise given to event.waitUntil once cache.addAll has
\* settled: the .catch on addAll swallows its rejection
InstallSettles(addAllRejected) == "fulfilled"

\* (variant) the call is missing
SkipWaitingNoop(flag) == flag

\* self.skipWaiting(): sets the worker's skip-waiting flag, whatever it was
SkipWaitingCall(flag) == TRUE

\* the handler runs: caches.open is started, self.skipWaiting() is called
InstallDispatch ==
    /\ state = "parsed"
    /\ state' = "installing"
    /\ install' = [pc |-> "opening", failed |-> FALSE]
    /\ skipWaiting' = SkipWaitingCall(skipWaiting)
    /\ UNCHANGED <<oldState, cacheNames, store, activate, fetches,
                 arrived, eventVars>>

\* caches.open(CACHE_NAME) resolves: the bucket exists from now on
InstallOpened ==
    /\ install.pc = "opening"
    /\ cacheNames' = OpenNames(cacheNames, CACHE_NAME)
    /\ install' = [install EXCEPT !.pc = "adding"]
    /\ UNCHANGED <<state, oldState, skipWaiting, store, activate, fetches,
                 arrived, eventVars>>

\* caches.open(CACHE_NAME) rejects: nothing catches it, the install fails
InstallOpenFailed ==
    /\ install.pc = "opening"
    /\ install' = [install EXCEPT !.pc = "rejected"]
    /\ state' = "redundant"
    /\ UNCHANGED <<oldState, skipWaiting, cacheNames, store, activate, fetches,
                 arrived, eventVars>>

\* cache.addAll settles, and with it the promise the install event waits for
InstallSeeded ==
    /\ install.pc = "adding"
    /\ \E outcome \in [SeedPaths -> SeedOutcomes] :
         LET settled == InstallSettles(FailedSeeds(outcome) # {}) IN
         /\ store' = AddAll(store, CACHE_NAME, outcome)
         /\ install' = [pc |-> IF settled = "fulfilled" THEN "settled" ELSE "rejected",
                        failed |-> FailedSeeds(outcome) # {}]
         /\ state' = IF settled = "fulfilled" THEN "installed" ELSE "redundant"
    /\ UNCHANGED <<oldState, skipWaiting, cacheNames, activate, fetches,
                 arrived, eventVars>>

\* ------------------------------------------------------------------------
\* activate event (service-worker.js 26-41)
\* ------------------------------------------------------------------------

\* the buckets the handler deletes: cacheName !== CACHE_NAME
StaleNames(names) == {names[i] : i \in {j \in 1..Len(names) : names[j] # CACHE_NAME}}

\* a write of a fetch handler that holds the cache object of bucket n
HoldsBucket(ft, n) == ft.write = "putting" /\ CacheNameOf(ft.worker) = n

\* every cache object opened on bucket n loses its bucket
Detached(ft, n) == IF HoldsBucket(ft, n) THEN [ft EXCEPT !.write = "putting_orphan"] ELSE ft

Detach(bag, n) ==
    LET after == {Detached(ft, n) : ft \in BagToSet(bag)} IN
    [nt \in after |->
        (IF HoldsBucket(nt, n) THEN 0 ELSE CopiesIn(nt, bag))
        + (IF nt.write = "putting_orphan" /\ CacheNameOf(nt.worker) = n
           THEN CopiesIn([nt EXCEPT !.write = "putting"], bag) ELSE 0)]

\* The installed worker takes over (its skip-waiting flag is set, or there
\* is no active worker); the previous version becomes redundant.  The
\* handler starts caches.keys() and calls self.clients.claim().
ActivateDispatch ==
    /\ state = "installed"
    /\ skipWaiting \/ oldState # "activated"
    /\ state' = "activating"
    /\ oldState' = IF oldState = "activated" THEN "redundant" ELSE oldState
    /\ activate' = [pc |-> "keys", deleting |-> {}, claim |-> "pending"]
    /\ UNCHANGED <<skipWaiting, cacheNames, store, install, fetches,
                 arrived, eventVars>>

\* caches.keys() resolves; a caches.delete is started for every stale name
ActivateKeys ==
    /\ activate.pc = "keys"
    /\ activate' = [activate EXCEPT !.pc = "deleting", !.deleting = StaleNames(cacheNames)]
    /\ UNCHANGED <<state, oldState, skipWaiting, cacheNames, store, install, fetches,
                 arrived, eventVars>>

\* one caches.delete(cacheName) resolves; cache objects already opened on
\* the bucket are detached from the storage
ActivateDeleted ==
    /\ activate.pc = "deleting"
    /\ \E n \in activate.deleting :
         /\ cacheNames' = DeleteNames(cacheNames, n)
         /\ store' = [store EXCEPT ![n] = EmptyBucket]
         /\ activate' = [activate EXCEPT !.deleting = @ \ {n}]
         /\ fetches' = Detach(fetches, n)
    /\ UNCHANGED <<state, oldState, skipWaiting, install,
                 arrived, eventVars>>

\* Promise.all resolves: the activate event has been handled
ActivateSettled ==
    /\ activate.pc = "deleting"
    /\ activate.deleting = {}
    /\ activate' = [activate EXCEPT !.pc = "settled"]
    /\ state' = "activated"
    /\ UNCHANGED <<oldState, skipWaiting, cacheNames, store, install, fetches,
                 arrived, eventVars>>

\* the promise of self.clients.claim() resolves
ClaimSettled ==
    /\ activate.claim = "pending"
    /\ activate' = [activate EXCEPT !.claim = "done"]
    /\ UNCHANGED <<state, oldState, skipWaiting, cacheNames, store, install, fetches,
                 arrived, eventVars>>

\* ------------------------------------------------------------------------
\* fetch event (service-worker.js 44-72)
\* ------------------------------------------------------------------------

\* (variant) no method guard
InterceptsAll(req) == TRUE

\* the method guard: event.request.method !== 'GET' returns before respondWith
Intercepts(req) == req.method = "GET"

\* (variant) response.ok instead of status === 200
ShouldCacheOk(resp) == IsOk(resp)

\* (variant) no status test
ShouldCacheAny(resp) == TRUE

\* the caching condition: response.status === 200
ShouldCache(resp) == resp.status = 200

\* the bucket the handler of worker w opens for its write: caches.open(CACHE_NAME)
WriteBucket(w) == CacheNameOf(w)

\* the lookup of the catch branch: caches.match(event.request), which asks
\* every bucket of the storage, whatever its name
LookupOnFailure(names, st, w, req) == CachesMatch(names, st, req)

\* (variant) the synthetic response is built with status 500
OrOffline500(found) ==
    IF found # NoResponse THEN found ELSE [OfflineResponse EXCEPT !.status = 500]

\* response || new Response('Offline - No cached response', ...)
OrOffline(found) == IF found # NoResponse THEN found ELSE OfflineResponse

\* the worker that receives the fetch events of the pages
Controls(w) ==
    \/ w = "old" /\ oldState = "activated"
    \/ w = "new" /\ state = "activated"

WritePending(ft) == ft.write \in {"opening", "putting", "putting_orphan"}

\* respondWith's promise has settled, or respondWith was never called
FetchHandled(ft) == ft.pc \in {"passthrough", "responded", "rejected"}

\* a fetch event is dispatched to the controlling worker; the handler either
\* returns at the method guard or calls respondWith(fetch(event.request)...)
FetchDispatch ==
    /\ BagCardinality(fetches) < MaxFetch
    /\ \E w \in Workers, req \in Requests :
         /\ Controls(w)
         /\ fetches' = fetches (+) SetToBag(
               {NewFetch(w, req, IF Intercepts(req) THEN "net" ELSE "passthrough")})
    /\ UNCHANGED <<state, oldState, skipWaiting, cacheNames, store, install, activate,
                 arrived, eventVars>>

\* a cache write of worker w for the GET of URL u is pending
WritesPending(bag, w, u) ==
    \E ft \in BagToSet(bag) : ft.worker = w /\ ft.req.url = u /\ WritePending(ft)

\* history of the arrivals: the latest response the handler decided to store,
\* kept while a write is pending and forgotten once all writes have settled
Arrival(arr, ft, r) ==
    IF ShouldCache(r) THEN [arr EXCEPT ![ft.worker][ft.req.url] = r] ELSE arr

Settle(arr, bag) ==
    [w \in Workers |-> [u \in URLs |->
        IF WritesPending(bag, w, u) THEN arr[w][u] ELSE NoResponse]]

\* (variant) the response is held back until the write has settled
AnsweredAfterWrite(ft, r) ==
    IF ShouldCache(r)
    THEN [ft EXCEPT !.net = r, !.write = "opening"]
    ELSE [ft EXCEPT !.pc = "responded", !.net = r, !.result = r, !.src = "network"]

\* (variant) cache first: a stored response is preferred to the network's
AnsweredCacheFirst(ft, r) ==
    LET found == CachesMatch(cacheNames, store, ft.req) IN
    [ft EXCEPT !.pc = "responded", !.net = r,
               !.result = IF found # NoResponse THEN found ELSE r,
               !.src = IF found # NoResponse THEN "cache" ELSE "network",
               !.write = IF ShouldCache(r) THEN "opening" ELSE "none"]

\* fetch resolves: the .then callback starts the write when the status is
\* 200 and returns the response, which settles respondWith
Answered(ft, r) ==
    [ft EXCEPT !.pc = "responded", !.net = r, !.result = r, !.src = "network",
               !.write = IF ShouldCache(r) THEN "opening" ELSE "none"]

NetworkResponds(ft) ==
    /\ ft.pc = "net"
    /\ \E r \in NetworkResponses :
         /\ fetches' = Replace(fetches, ft, Answered(ft, r))
         /\ arrived' = Arrival(arrived, ft, r)
    /\ UNCHANGED <<state, oldState, skipWaiting, cacheNames, store, install, activate,
                 eventVars>>

\* fetch rejects: the .catch callback starts caches.match
NetworkFails(ft) ==
    /\ ft.pc = "net"
    /\ fetches' = Replace(fetches, ft, [ft EXCEPT !.pc = "matching"])
    /\ UNCHANGED <<state, oldState, skipWaiting, cacheNames, store, install, activate,
                 arrived, eventVars>>

\* caches.match resolves: the stored response or the synthetic 503 settles
\* respondWith
Matched(ft, found) ==
    [ft EXCEPT !.pc = "responded", !.result = OrOffline(found),
               !.src = IF found # NoResponse THEN "cache" ELSE "fallback"]

MatchSettled(ft) ==
    /\ ft.pc = "matching"
    /\ fetches' = Replace(fetches, ft,
          Matched(ft, LookupOnFailure(cacheNames, store, ft.worker, ft.req)))
    /\ UNCHANGED <<state, oldState, skipWaiting, cacheNames, store, install, activate,
                 arrived, eventVars>>

\* caches.match rejects (storage error): nothing catches it, respondWith's
\* promise rejects
MatchFailed(ft) ==
    /\ ft.pc = "matching"
    /\ fetches' = Replace(fetches, ft, [ft EXCEPT !.pc = "rejected"])
    /\ UNCHANGED <<state, oldState, skipWaiting, cacheNames, store, install, activate,
                 arrived, eventVars>>

\* caches.open(CACHE_NAME) of the write resolves: creates the bucket if absent
WriteOpened(ft) ==
    /\ ft.write = "opening"
    /\ cacheNames' = OpenNames(cacheNames, WriteBucket(ft.worker))
    /\ fetches' = Replace(fetches, ft, [ft EXCEPT !.write = "putting"])
    /\ UNCHANGED <<state, oldState, skipWaiting, store, install, activate,
                 arrived, eventVars>>

\* cache.put(event.request, responseClone) resolves on a bucket of the storage;
\* it was the last work of the event, which is over
WritePut(ft) ==
    /\ ft.write = "putting"
    /\ CanPut(ft.req)
    /\ store' = PutEntry(store, WriteBucket(ft.worker), ft.req, Clone(ft.net))
    /\ fetches' = Remove(fetches, ft)
    /\ arrived' = Settle(arrived, fetches')
    /\ UNCHANGED <<state, oldState, skipWaiting, cacheNames, install, activate,
                 eventVars>>

\* cache.put resolves on a cache object whose bucket was deleted meanwhile
WritePutDetached(ft) ==
    /\ ft.write = "putting_orphan"
    /\ fetches' = Remove(fetches, ft)
    /\ arrived' = Settle(arrived, fetches')
    /\ UNCHANGED <<state, oldState, skipWaiting, cacheNames, store, install, activate,
                 eventVars>>

\* caches.open or cache.put rejects (quota, storage error): the chain is not
\* returned and has no catch, nothing is stored
WriteFailed(ft) ==
    /\ WritePending(ft)
    /\ fetches' = Remove(fetches, ft)
    /\ arrived' = Settle(arrived, fetches')
    /\ UNCHANGED <<state, oldState, skipWaiting, cacheNames, store, install, activate,
                 eventVars>>

\* ------------------------------------------------------------------------
\* host runtime: worker teardown, end of an event
\* ------------------------------------------------------------------------

\* no event of worker w is still being handled
WorkerIdle(w) ==
    /\ \A ft \in InFlight : ft.worker = w => FetchHandled(ft)
    /\ w = "new" => state \notin {"installing", "activating"}

\* the host stops an idle worker; work it had not registered with an event
\* is abandoned
Terminate(w) ==
    /\ WorkerIdle(w)
    /\ \E ft \in InFlight : ft.worker = w /\ WritePending(ft)
    /\ fetches' = [ft \in {x \in InFlight : ~(x.worker = w /\ WritePending(x))}
                     |-> fetches[ft]]
    /\ arrived' = Settle(arrived, fetches')
    /\ UNCHANGED <<state, oldState, skipWaiting, cacheNames, store, install, activate,
                 eventVars>>

\* a finished fetch event is forgotten
FetchRetire(ft) ==
    /\ FetchHandled(ft)
    /\ ~WritePending(ft)
    /\ fetches' = Remove(fetches, ft)
    /\ UNCHANGED <<state, oldState, skipWaiting, cacheNames, store, install, activate,
                 arrived, eventVars>>

\* ------------------------------------------------------------------------
\* message event (service-worker.js 113-119)
\* ------------------------------------------------------------------------

\* what a page can post: nothing (null), the recognised command, another one
MessageData ==
    {NoData,
     [present |-> TRUE, type |-> "SKIP_WAITING", text |-> ""],
     [present |-> TRUE, type |-> "PING", text |-> ""]}

\* (variant) every message that carries data is obeyed
IsSkipWaitingAny(data) == data.present

\* event.data && event.data.type === 'SKIP_WAITING'
IsSkipWaiting(data) == data.present /\ data.type = "SKIP_WAITING"

\* the new worker runs and can be sent events
Running == state \in {"installing", "installed", "activating", "activated"}

\* a message event is dispatched to the new worker and handled
MessageDispatch ==
    /\ Running
    /\ \E data \in MessageData :
         /\ skipWaiting' = IF IsSkipWaiting(data)
                           THEN SkipWaitingCall(skipWaiting) ELSE skipWaiting
         /\ message' = [seen |-> TRUE, data |-> data, called |-> IsSkipWaiting(data)]
    /\ UNCHANGED <<state, oldState, cacheNames, store, install, activate, fetches,
                   arrived, push, shown, click, windows>>

\* ------------------------------------------------------------------------
\* push event (service-worker.js 75-89)
\* ------------------------------------------------------------------------

\* the payload of a push message: none (event.data is null), or some text
PushData ==
    {NoData,
     [present |-> TRUE, type |-> "", text |-> "Hello"],
     [present |-> TRUE, type |-> "", text |-> ""]}

\* the default body (line 79), transliterated to ASCII
DEFAULT_BODY == "Novoe soobshchenie v NeoChat"

\* (variant) event.data.text() || default
BodyOfOrDefault(data) == IF data.present /\ data.text # "" THEN data.text ELSE DEFAULT_BODY

\* body: event.data ? event.data.text() : default
BodyOf(data) == IF data.present THEN data.text ELSE DEFAULT_BODY

\* the options object of lines 78-84
Options(data) ==
    [body |-> BodyOf(data), icon |-> "/favicon.ico", badge |-> "/favicon.ico",
     tag |-> "neochat-notification", requireInteraction |-> FALSE]

\* the handler runs: the options are built, showNotification is started and
\* registered with event.waitUntil
PushDispatch ==
    /\ state = "activated"
    /\ push.pc = "idle"
    /\ \E data \in PushData :
         push' = [pc |-> "showing", data |-> data, options |-> Options(data)]
    /\ UNCHANGED <<state, oldState, skipWaiting, cacheNames, store, install, activate,
                   fetches, arrived, message, shown, click, windows>>

\* showNotification('NeoChat', options) resolves: the notification is on
\* display, in place of the one with the same tag
PushShown ==
    /\ push.pc = "showing"
    /\ shown' = [title |-> "NeoChat", options |-> push.options]
    /\ push' = NoPush
    /\ UNCHANGED <<state, oldState, skipWaiting, cacheNames, store, install, activate,
                   fetches, arrived, message, click, windows>>

\* ------------------------------------------------------------------------
\* notificationclick event (service-worker.js 92-110)
\* ------------------------------------------------------------------------

\* URL resolution against the worker's location (the static server of
\* server.js, port 3000); Client.url and the URL of an opened window are
\* absolute
Resolve(path) ==
    CASE path = "/"           -> "http://localhost:3000/"
      [] path = "/index.html" -> "http://localhost:3000/index.html"
      [] OTHER                -> path

\* the pages of the application a user can have open
PageUrls == {Resolve("/"), Resolve("/index.html")}

\* the test of the loop: clientList[i].url === '/' && 'focus' in clientList[i]
IsRootClient(url) == url = "/"

\* the handler runs: event.notification.close(), clients.matchAll is started
\* and registered with event.waitUntil
ClickDispatch ==
    /\ state = "activated"
    /\ shown # NoNotification
    /\ click.pc = "idle"
    /\ shown' = NoNotification
    /\ click' = [pc |-> "matching", outcome |-> "none", target |-> ""]
    /\ UNCHANGED <<state, oldState, skipWaiting, cacheNames, store, install, activate,
                   fetches, arrived, message, push, windows>>

\* clients.matchAll resolves: the first client that passes the test is
\* focused; when none does, clients.openWindow('/') opens a window
ClickSettled ==
    /\ click.pc = "matching"
    /\ LET clientList == windows
           roots == {c \in clientList : IsRootClient(c)}
       IN  IF roots # {}
           THEN /\ \E c \in roots :
                     click' = [pc |-> "idle", outcome |-> "focused", target |-> c]
                /\ windows' = windows
           ELSE /\ click' = [pc |-> "idle", outcome |-> "opened", target |-> Resolve("/")]
                /\ windows' = windows \cup {Resolve("/")}
    /\ UNCHANGED <<state, oldState, skipWaiting, cacheNames, store, install, activate,
                   fetches, arrived, message, push, shown>>

\* the user opens a page of the application, which the active worker controls
PageOpens ==
    /\ state = "activated"
    /\ \E u \in PageUrls : u \notin windows /\ windows' = windows \cup {u}
    /\ UNCHANGED <<state, oldState, skipWaiting, cacheNames, store, install, activate,
                   fetches, arrived, message, push, shown, click>>

\* the user closes a page
PageCloses ==
    /\ \E u \in windows : windows' = windows \ {u}
    /\ UNCHANGED <<state, oldState, skipWaiting, cacheNames, store, install, activate,
                   fetches, arrived, message, push, shown, click>>

\* ------------------------------------------------------------------------
\* Specification
\* ------------------------------------------------------------------------

Next ==
    \/ InstallDispatch
    \/ InstallOpened
    \/ InstallOpenFailed
    \/ InstallSeeded
    \/ ActivateDispatch
    \/ ActivateKeys
    \/ ActivateDeleted
    \/ ActivateSettled
    \/ ClaimSettled
    \/ FetchDispatch
    \/ \E ft \in InFlight : NetworkResponds(ft)
    \/ \E ft \in InFlight : NetworkFails(ft)
    \/ \E ft \in InFlight : MatchSettled(ft)
    \/ \E ft \in InFlight : MatchFailed(ft)
    \/ \E ft \in InFlight : WriteOpened(ft)
    \/ \E ft \in InFlight : WritePut(ft)
    \/ \E ft \in InFlight : WritePutDetached(ft)
    \/ \E ft \in InFlight : WriteFailed(ft)
    \/ \E w \in Workers : Terminate(w)
    \/ \E ft \in InFlight : FetchRetire(ft)

Spec == Init /\ [][Next]_vars

\* The lifecycle with the message, push and notificationclick events.  The
\* host runs the activation of a worker that may take over, and the cache
\* operations of the activate handler settle: weak fairness of these steps.
EventNext ==
    \/ InstallDispatch
    \/ InstallOpened
    \/ InstallOpenFailed
    \/ InstallSeeded
    \/ ActivateDispatch
    \/ ActivateKeys
    \/ ActivateDeleted
    \/ ActivateSettled
    \/ ClaimSettled
    \/ MessageDispatch
    \/ PushDispatch
    \/ PushShown
    \/ ClickDispatch
    \/ ClickSettled
    \/ PageOpens
    \/ PageCloses

\* The write path of the fetch handler on its own: the worker is active on
\* a first install with its bucket seeded, the network answers every
\* request, and caches.open and cache.put succeed.
RaceInit ==
    /\ state = "activated"
    /\ skipWaiting = TRUE
    /\ oldState = "none"
    /\ cacheNames = <<CACHE_NAME>>
    /\ store = [n \in BucketNames |->
                 IF n = CACHE_NAME THEN SeededBucket ELSE EmptyBucket]
    /\ install = [pc |-> "settled", failed |-> FALSE]
    /\ activate = [pc |-> "settled", deleting |-> {}, claim |-> "done"]
    /\ fetches = EmptyBag
    /\ arrived = NoArrival
    /\ message = NoMessage
    /\ push = NoPush
    /\ shown = NoNotification
    /\ click = NoClick
    /\ windows = {}

RaceNext ==
    \/ FetchDispatch
    \/ \E ft \in InFlight : NetworkResponds(ft)
    \/ \E ft \in InFlight : WriteOpened(ft)
    \/ \E ft \in InFlight : WritePut(ft)
    \/ \E ft \in InFlight : FetchRetire(ft)

RaceSpec == RaceInit /\ [][RaceNext]_vars

EventSpec ==
    /\ Init
    /\ [][EventNext]_vars
    /\ WF_vars(ActivateDispatch)
    /\ WF_vars(ActivateKeys)
    /\ WF_vars(ActivateDeleted)
    /\ WF_vars(ActivateSettled)

\* ------------------------------------------------------------------------
\* Properties
\* ------------------------------------------------------------------------

\* cache.match(request) on the single bucket n, as a page or a test reads it
BucketMatch(names, st, n, req) == IF HasBucket(names, n) THEN st[n][req] ELSE NoResponse

\* the bucket that is "current" for the worker handling the event ft
OwnBucket(ft) == CacheNameOf(ft.worker)

AnsweredByNetwork(ft) == ft.pc = "responded" /\ ft.src = "network"

\* the event records a step brings into being, and a record it takes away
Added == {nt \in BagToSet(fetches') : CopiesIn(nt, fetches') > CopiesIn(nt, fetches)}
Removed(ft) == CopiesIn(ft, fetches') < CopiesIn(ft, fetches)

StorageUnchanged == store' = store /\ cacheNames' = cacheNames

\* C1 as stated: whenever a GET request has been answered by the network
\* with status 200, a lookup of the same request identity in the current
\* Named Cache returns a response with the body of that network response.
C1_LookupAfterNetwork200 ==
    \A ft \in InFlight :
        (AnsweredByNetwork(ft) /\ ft.net.status = 200)
        => BucketMatch(cacheNames, store, OwnBucket(ft), ft.req).body = ft.net.body

\* C1 amended: at the moment the cache.put started for a 200 response
\* resolves on the current Named Cache, a lookup of the same request identity
\* in that bucket returns a response whose body is the network response's.
C1_WriteThenRead ==
    [][\A ft \in InFlight :
          WritePut(ft)
          => /\ ft.net.status = 200
             /\ BucketMatch(cacheNames', store', OwnBucket(ft), ft.req).body
                   = ft.net.body]_vars

\* a body that only a fetch-handler write can have put in the current bucket
C1_Witness == store[CACHE_NAME][GetRequest("/")].body = "world"

\* C2 as stated: for every intercepted GET request the promise given to
\* respondWith resolves to a response (network, cached or synthetic 503); it
\* never rejects.
C2_AlwaysAResponse ==
    \A ft \in InFlight :
        (Intercepts(ft.req) /\ FetchHandled(ft))
        => (ft.pc = "responded" /\ ft.result # NoResponse)

\* C3: when the network fetch fails and the lookup settles, the response is
\* the synthetic one (503, "Service Unavailable", text/plain, fixed body) if
\* no bucket of the storage holds an entry for the request identity, and a
\* stored response for that identity, not the 503, if one does.
C3_FallbackOrStored ==
    [][\A ft \in InFlight :
          MatchSettled(ft)
          => LET held == {BucketMatch(cacheNames, store, n, ft.req) : n \in BucketNames}
                            \ {NoResponse}
             IN  /\ Added # {}
                 /\ \A nt \in Added :
                      /\ nt.pc = "responded" /\ nt.req = ft.req
                      /\ held = {} =>
                           /\ nt.result.status = 503
                           /\ nt.result.statusText = "Service Unavailable"
                           /\ nt.result.contentType = "text/plain"
                           /\ nt.result.body = "Offline - No cached response"
                      /\ held # {} => nt.result \in held /\ nt.result.status # 503]_vars

\* one request answered by the synthetic 503 and one by a stored response
C3_Witness ==
    /\ \E ft \in InFlight :
          ft.pc = "responded" /\ ft.src = "fallback" /\ ft.result.status = 503
    /\ \E ft \in InFlight :
          ft.pc = "responded" /\ ft.src = "cache" /\ ft.result.status = 200

\* C4: a fetch event whose method is not GET is left alone: no respondWith,
\* no network fetch, no write, no lookup, no response, and the cache storage
\* is the same after the event as before it.
C4_NonGetUntouched ==
    /\ [](\A ft \in InFlight :
            ft.req.method # "GET"
            => /\ ft.pc = "passthrough"
               /\ ft.net = NoResponse
               /\ ft.result = NoResponse
               /\ ft.src = "none"
               /\ ft.write = "none")
    /\ [][\A nt \in Added : nt.req.method # "GET" => StorageUnchanged]_vars
    /\ [][\A ft \in InFlight :
            (ft.req.method # "GET" /\ Removed(ft))
            => (Added = {} /\ StorageUnchanged)]_vars

C4_Witness ==
    \E ft \in InFlight : ft.pc = "passthrough" /\ ft.req.method = "POST"

\* C5 as stated: at the moment the activate event is fully handled, the
\* storage holds exactly one bucket, the one named CACHE_NAME.
C5_OneBucketAfterActivate ==
    [][ActivateSettled => cacheNames' = <<CACHE_NAME>>]_vars

\* C6 as stated: a stored response returned as fallback is the entry of the
\* bucket named by the worker's own CACHE_NAME.
C6_FallbackFromOwnBucket ==
    [][\A ft \in InFlight :
          MatchSettled(ft)
          => \A nt \in Added :
                nt.src = "cache"
                => nt.result = BucketMatch(cacheNames, store, OwnBucket(ft), ft.req)]_vars

\* C7 as stated: no event is fully handled while an operation started by
\* its handler is still pending.
C7_WorkRegistered ==
    /\ \A ft \in InFlight : FetchHandled(ft) => ~WritePending(ft)
    /\ activate.pc = "settled" => activate.claim # "pending"

\* C8: a network response with a status other than 200 is returned as it
\* is; the handler starts no write and no lookup for it and the storage does
\* not change, whatever the cache holds.
C8_Non200PassedThrough ==
    /\ [](\A ft \in InFlight :
            (ft.net # NoResponse /\ ft.net.status # 200)
            => (AnsweredByNetwork(ft) /\ ft.result = ft.net /\ ft.write = "none"))
    /\ [][\A nt \in Added :
            (nt.net # NoResponse /\ nt.net.status # 200) => StorageUnchanged]_vars
    /\ [][\A ft \in InFlight :
            (ft.net # NoResponse /\ ft.net.status # 200 /\ Removed(ft))
            => (Added = {} /\ StorageUnchanged)]_vars

\* a non-200 answer passed through while the bucket holds an entry for it
C8_Witness ==
    \E ft \in InFlight :
        /\ AnsweredByNetwork(ft)
        /\ ft.net.status = 404
        /\ ft.result = ft.net
        /\ BucketMatch(cacheNames, store, OwnBucket(ft), ft.req) # NoResponse

\* C9 as stated: every entry of the current Named Cache is keyed by a GET
\* request and holds a response with status 200.
C9_OnlyGet200 ==
    \A k \in Keys :
        store[CACHE_NAME][k] # NoResponse
        => (k.method = "GET" /\ store[CACHE_NAME][k].status = 200)

\* C9 amended: every entry of the current Named Cache is keyed by a GET
\* request and holds a response with an ok status (200-299); the entries the
\* fetch handler writes hold status 200.
C9_OnlyGetOk ==
    /\ [](\A k \in Keys :
            store[CACHE_NAME][k] # NoResponse
            => (k.method = "GET" /\ IsOk(store[CACHE_NAME][k])))
    /\ [][\A ft \in InFlight :
            WritePut(ft)
            => (ft.req.method = "GET" /\ store'[OwnBucket(ft)][ft.req].status = 200)]_vars

\* a seeded entry with status 204 beside an entry written by the fetch handler
C9_Witness ==
    /\ store[CACHE_NAME][GetRequest("/index.html")].status = 204
    /\ store[CACHE_NAME][GetRequest("/")].body = "world"

\* C10: when seed fetches fail at install time, the promise the install
\* event waits for is fulfilled and the worker leaves the installing state
\* for installed (and beyond), never for redundant.
C10_SeedFailureSwallowed ==
    install.failed
    => (install.pc = "settled" /\ state \in {"installed", "activating", "activated"})

C10_Witness == install.failed /\ state = "installed" /\ HasBucket(cacheNames, CACHE_NAME)

\* the SKIP_WAITING command, as a page posts it
SkipWaitingMessage == [present |-> TRUE, type |-> "SKIP_WAITING", text |-> ""]

\* C11: a worker in the installed (waiting) state that has received a
\* message of type SKIP_WAITING eventually becomes active, also while the
\* previous version is still active for its open pages; and a message
\* handled by the worker once it is active changes neither its lifecycle
\* state, nor its skip-waiting flag, nor the storage, nor the notification.
C11_SkipWaitingActivates ==
    /\ (state = "installed" /\ message.data = SkipWaitingMessage) ~> (state = "activated")
    /\ [][(MessageDispatch /\ state = "activated") =>
            UNCHANGED <<state, oldState, skipWaiting, cacheNames, store, install,
                        activate, push, shown, click, windows>>]_vars

\* the command has reached a waiting worker while the previous version is
\* the active one
C11_Witness ==
    /\ state = "installed"
    /\ oldState = "activated"
    /\ message.data = SkipWaitingMessage
    /\ message.called

\* C12: on activation the stale buckets are deleted first and the pages are
\* claimed afterwards: at the moment the claim of the pages takes effect
\* (the promise of clients.claim() resolves), no bucket with a key other
\* than CACHE_NAME exists.
C12_PruneBeforeClaim ==
    [][ClaimSettled => StaleNames(cacheNames) = {}]_vars

\* a page at the root URL of the application
AtRoot(url) == url = Resolve("/")

\* C13: for every notification click the notification is closed, and exactly
\* one outcome follows: when some open window page is at the root URL, one
\* such page is focused and no page is opened; when none is, one page is
\* opened at the root URL and none is focused.
C13_FocusOrOpen ==
    [][/\ ClickDispatch => shown' = NoNotification
       /\ ClickSettled =>
            IF \E c \in windows : AtRoot(c)
            THEN /\ click'.outcome = "focused"
                 /\ click'.target \in windows /\ AtRoot(click'.target)
                 /\ windows' = windows
            ELSE /\ click'.outcome = "opened"
                 /\ AtRoot(click'.target)
                 /\ windows' = windows \cup {click'.target}]_vars

\* C14: for every push event the body of the notification displayed is the
\* text of the payload when the event carries one (whatever the text) and
\* the fixed default otherwise; title, icon, badge and tag are the same
\* constants in both cases.
C14_NotificationBody ==
    [][PushShown =>
        /\ shown'.options.body =
              (IF push.data.present THEN push.data.text ELSE DEFAULT_BODY)
        /\ shown'.title = "NeoChat"
        /\ shown'.options.icon = "/favicon.ico"
        /\ shown'.options.badge = "/favicon.ico"
        /\ shown'.options.tag = "neochat-notification"]_vars

\* a push without payload has put the default body on display
C14_Witness ==
    /\ shown.title = "NeoChat"
    /\ shown.options.body = DEFAULT_BODY
    /\ push.pc = "idle"

\* C15: the cache is read only after a network failure: a cache lookup is
\* started only by the rejection of the network fetch, an event answered
\* from the cache or by the synthetic response never had a network
\* response, and whenever the network gave a response, that response is the
\* one returned, whatever the cache holds.
C15_CacheOnlyAfterFailure ==
    /\ [](\A ft \in InFlight :
            /\ (ft.pc = "matching" \/ ft.src \in {"cache", "fallback"})
                  => ft.net = NoResponse
            /\ ft.net # NoResponse
                  => ft.pc = "responded" /\ ft.src = "network" /\ ft.result = ft.net)
    /\ [][\A nt \in Added :
            nt.pc = "matching" =>
              \E ft \in InFlight :
                 ft.pc = "net" /\ Removed(ft) /\ nt = [ft EXCEPT !.pc = "matching"]]_vars

\* the network has answered a request for which the cache holds another body
C15_Witness ==
    \E ft \in InFlight :
        /\ AnsweredByNetwork(ft)
        /\ CachesMatch(cacheNames, store, ft.req) # NoResponse
        /\ CachesMatch(cacheNames, store, ft.req).body # ft.result.body

\* C16 as stated: for GET requests of the same identity answered with status
\* 200, once all pending cache writes have settled the bucket holds the
\* response that arrived last from the network, under every interleaving of
\* the open and put steps.
C16_LaterFetchWins ==
    [][\A w \in Workers, u \in URLs :
        (WritesPending(fetches, w, u) /\ ~WritesPending(fetches', w, u)) =>
           BucketMatch(cacheNames', store', CacheNameOf(w), GetRequest(u))
             = Clone(arrived[w][u])]_vars

\* C16: for GET requests of the same identity answered with status 200,
\* once all pending cache writes have settled the bucket holds the
\* response whose cache.put resolved last, whichever of the responses
\* arrived first from the network.
C16_LastPutWins ==
    [][\A ft \in InFlight :
        (WritePut(ft) /\ ~WritesPending(fetches', ft.worker, ft.req.url)) =>
           BucketMatch(cacheNames', store', OwnBucket(ft), ft.req) = Clone(ft.net)]_vars

\* two responses have arrived, the later one is stored already, and the
\* put of the earlier one is the only write still pending
C16_Witness ==
    \E ft \in InFlight :
        /\ ft.write = "putting"
        /\ CopiesIn(ft, fetches) = 1
        /\ \A other \in InFlight : WritePending(other) => other = ft
        /\ arrived[ft.worker][ft.req.url] # ft.net
        /\ BucketMatch(cacheNames, store, OwnBucket(ft), ft.req)
             = Clone(arrived[ft.worker][ft.req.url])

\* the state the write path starts from is one the lifecycle reaches
RaceInitReached ==
    /\ state = "activated" /\ oldState = "none" /\ skipWaiting
    /\ cacheNames = <<CACHE_NAME>>
    /\ store[CACHE_NAME] = SeededBucket /\ store[OLD_CACHE_NAME] = EmptyBucket
    /\ install = [pc |-> "settled", failed |-> FALSE]
    /\ activate = [pc |-> "settled", deleting |-> {}, claim |-> "done"]
    /\ fetches = EmptyBag /\ arrived = NoArrival

\* the prune of the activate handler has removed the previous version's bucket
Pruned ==
    /\ oldState = "redundant"
    /\ activate.pc \in {"deleting", "settled"}
    /\ OLD_CACHE_NAME \notin activate.deleting
    /\ ~HasBucket(cacheNames, OLD_CACHE_NAME)

\* C17: once the prune of the newer version has removed the bucket of the
\* older version, that bucket stays absent: no later step, the in-flight
\* write of the older version's fetch handler included, brings it back.
C17_PrunedStaysAbsent ==
    [][Pruned => ~HasBucket(cacheNames', OLD_CACHE_NAME)]_vars

\* C18: a message whose data is absent, or whose type is not SKIP_WAITING,
\* is ignored: the handler does not call skipWaiting, and the lifecycle
\* state, the skip-waiting flag, the cache storage and the notification on
\* display are what they were.
C18_UnknownMessageIgnored ==
    [][(MessageDispatch /\ message'.data # SkipWaitingMessage) =>
        /\ ~message'.called
        /\ UNCHANGED <<state, oldState, skipWaiting, cacheNames, store, install,
                       activate, fetches, push, shown, click, windows>>]_vars

\* a waiting worker has handled a message of another type
C18_Witness ==
    /\ state = "installed"
    /\ message.seen
    /\ message.data.present
    /\ message.data.type = "PING"

\* C19: for a GET request the network answers with status 200, the response
\* returned does not depend on the cache write: respondWith is settled with
\* the network response in the step that starts the write, and the response
\* is that same network response at every later stage of the write (cache
\* opened, bucket deleted under it), until the write succeeds, fails or is
\* abandoned.
C19_ResponseIndependentOfWrite ==
    /\ [](\A ft \in InFlight :
            (ft.net.status = 200 \/ WritePending(ft)) =>
               ft.pc = "responded" /\ ft.src = "network" /\ ft.result = ft.net)
    /\ [][\A nt \in Added :
            /\ (nt.net.status = 200 /\ nt.write = "opening") =>
                  /\ nt.pc = "responded" /\ nt.result = nt.net
                  /\ StorageUnchanged
            /\ nt.write \in {"putting", "putting_orphan"} =>
                  \E ft \in InFlight :
                     /\ Removed(ft)
                     /\ ft.pc = "responded"
                     /\ nt.pc = "responded"
                     /\ nt.result = ft.result /\ nt.net = ft.net]_vars

\* a 200 response has been returned while its write can no longer reach the
\* storage
C19_Witness ==
    \E ft \in InFlight :
        /\ ft.pc = "responded"
        /\ ft.result = ft.net
        /\ ft.net.status = 200
        /\ ft.write = "putting_orphan"

\* the seed paths that have an entry in the current bucket
SeedsStored(names, st) ==
    {p \in SeedPaths : BucketMatch(names, st, CACHE_NAME, GetRequest(p)) # NoResponse}

\* C20: install-time seeding is all-or-nothing.  When the fetch of at least
\* one seed path fails, the install still completes (the worker is
\* installed) with the current bucket created, and the bucket holds no seed
\* entry, not even for the paths whose fetch succeeded; when all succeed,
\* every seed path has an entry once the install event has been handled.
C20_SeedAllOrNothing ==
    /\ [][InstallSeeded =>
            /\ state' = "installed"
            /\ HasBucket(cacheNames', CACHE_NAME)
            /\ SeedsStored(cacheNames', store') =
                  (IF install'.failed THEN {} ELSE SeedPaths)]_vars
    /\ [](state = "installed" =>
            SeedsStored(cacheNames, store) = (IF install.failed THEN {} ELSE SeedPaths))

\* the install has been handled with a failed seed: the bucket exists and
\* is empty
C20_Witness ==
    /\ state = "installed"
    /\ install.pc = "settled"
    /\ install.failed
    /\ HasBucket(cacheNames, CACHE_NAME)
    /\ SeedsStored(cacheNames, store) = {}

====
